---- MODULE Spec2Model ----
(***************************************************************************)
(* Model of address_book_manager.py: the field validators, Record, the     *)
(* AddressBook (an insertion-ordered dict, kept as a sequence of records), *)
(* its pickle persistence and the command loop of main().                  *)
(*                                                                         *)
(* Two specifications:                                                     *)
(*   Spec       the command loop of main() (one action per branch);        *)
(*   SpecRecord direct calls of Record.edit_phone and                      *)
(*              Record.days_to_birthday, which no command reaches with     *)
(*              every input (days_to_birthday is called by no command).    *)
(***************************************************************************)
EXTENDS Integers, Sequences, FiniteSets, TLC

VARIABLES
    book,     \* AddressBook.data: records in insertion order (Spec);
              \* the one Record under test (SpecRecord)
    storage,  \* the file addressbook.pkl
    pc,       \* "prompt" (at input()) | "printed" (the command has run) |
              \* "done" (break) | "crashed" (uncaught exception) | "api"
    err,      \* type of the uncaught exception, "" when none
    line,     \* this iteration's input line: user_input.split()
    out,      \* lines printed in this iteration
    now,      \* datetime.today() as read in this iteration, NoClock if not read
    call,     \* SpecRecord: the last method call and its arguments
    ret       \* SpecRecord: what the last method call returned or raised

vars == <<book, storage, pc, err, line, out, now, call, ret>>

-----------------------------------------------------------------------------
(* Bounds of the model *)

\* at most this many phones are stored in the whole directory (Spec)
MaxPhones == 2
\* a Record under direct test starts with at most this many phones (SpecRecord)
MaxRecordPhones == 3
\* resolution of the time of day: datetime.today() has TicksPerDay instants a day
TicksPerDay == 2

(* Program constants *)
PhoneLen == 10
HorizonDays == 7

None == "None"

-----------------------------------------------------------------------------
(* Strings.  A token is a TLA+ string; Chars spells it, so that the        *)
(* validators work on the characters as the regular expressions do.        *)

Names == {"Alice", "Bob"}

P1 == "1234567890"
P2 == "0000000000"
PShort == "123456789"
PLong == "12345678901"
PAlpha == "12345abcde"
ValidPhoneTokens == {P1, P2}
PhoneTokens == {P1, P2, PShort, PLong, PAlpha}

B1 == "12.03.1990"
BLeap == "29.02.2000"
BNoDay == "29.02.2023"
BIso == "1990-03-12"
BirthdayTokens == {B1, BLeap, BNoDay, BIso}

Digits == {"0", "1", "2", "3", "4", "5", "6", "7", "8", "9"}

Chars(tok) ==
    CASE tok = P1     -> <<"1","2","3","4","5","6","7","8","9","0">>
      [] tok = P2     -> <<"0","0","0","0","0","0","0","0","0","0">>
      [] tok = PShort -> <<"1","2","3","4","5","6","7","8","9">>
      [] tok = PLong  -> <<"1","2","3","4","5","6","7","8","9","0","1">>
      [] tok = PAlpha -> <<"1","2","3","4","5","a","b","c","d","e">>
      [] tok = B1     -> <<"1","2",".","0","3",".","1","9","9","0">>
      [] tok = BLeap  -> <<"2","9",".","0","2",".","2","0","0","0">>
      [] tok = BNoDay -> <<"2","9",".","0","2",".","2","0","2","3">>
      [] tok = BIso   -> <<"1","9","9","0","-","0","3","-","1","2">>
      [] tok = "Alice" -> <<"A","l","i","c","e">>
      [] tok = "Bob"   -> <<"B","o","b">>
      [] OTHER         -> <<"?">>

DigitValue(c) ==
    CASE c = "0" -> 0 [] c = "1" -> 1 [] c = "2" -> 2 [] c = "3" -> 3
      [] c = "4" -> 4 [] c = "5" -> 5 [] c = "6" -> 6 [] c = "7" -> 7
      [] c = "8" -> 8 [] c = "9" -> 9

\* int(s) of a non-empty sequence of digits
RECURSIVE ToInt(_)
ToInt(s) ==
    IF Len(s) = 0 THEN 0
    ELSE 10 * ToInt(SubSeq(s, 1, Len(s) - 1)) + DigitValue(s[Len(s)])

AllDigits(s) == \A i \in 1..Len(s) : s[i] \in Digits

-----------------------------------------------------------------------------
(* Field validators *)

\* Phone._validate: re.match(r'^\d{10}$', value); '$' also matches before a
\* final newline.  TRUE when the value is accepted.
Phone_validate_prefix(value) ==
    LET s == Chars(value)
    IN  Len(s) >= PhoneLen /\ \A i \in 1..PhoneLen : s[i] \in Digits

Phone_validate(value) ==
    LET s == Chars(value)
    IN  /\ Len(s) = PhoneLen \/ (Len(s) = PhoneLen + 1 /\ s[PhoneLen + 1] = "\n")
        /\ \A i \in 1..PhoneLen : s[i] \in Digits

\* calendar of datetime
IsLeap(y) == (y % 4 = 0) /\ ((y % 100 # 0) \/ (y % 400 = 0))

DaysInMonth(y, m) ==
    IF m = 2 THEN (IF IsLeap(y) THEN 29 ELSE 28)
    ELSE IF m \in {4, 6, 9, 11} THEN 30 ELSE 31

\* positions of the dots of a character sequence
DotsOf(s) == {i \in 1..Len(s) : s[i] = "."}

\* datetime.strptime(value, "%d.%m.%Y"): the fields [ok, day, month, year].
\* %d and %m take one or two digits, %Y exactly four; the date must exist.
strptime(value) ==
    LET s == Chars(value)
        dots == DotsOf(s)
        bad == [ok |-> FALSE, day |-> 0, month |-> 0, year |-> 0]
    IN  IF Cardinality(dots) # 2 THEN bad
        ELSE
          LET i1 == CHOOSE i \in dots : \A j \in dots : i <= j
              i2 == CHOOSE i \in dots : \A j \in dots : i >= j
              ds == SubSeq(s, 1, i1 - 1)
              ms == SubSeq(s, i1 + 1, i2 - 1)
              ys == SubSeq(s, i2 + 1, Len(s))
          IN  IF /\ Len(ds) \in {1, 2} /\ AllDigits(ds)
                 /\ Len(ms) \in {1, 2} /\ AllDigits(ms)
                 /\ Len(ys) = 4 /\ AllDigits(ys)
                 /\ ToInt(ms) \in 1..12
                 /\ ToInt(ds) \in 1..31
                 /\ ToInt(ys) >= 1
                 /\ ToInt(ds) <= DaysInMonth(ToInt(ys), ToInt(ms))
              THEN [ok |-> TRUE, day |-> ToInt(ds), month |-> ToInt(ms),
                    year |-> ToInt(ys)]
              ELSE bad

\* Birthday._validate: TRUE when the value is accepted
Birthday_validate(value) == strptime(value).ok

\* Birthday.date: midnight of the stored date
Birthday_date(value) ==
    LET f == strptime(value)
    IN  [year |-> f.year, month |-> f.month, day |-> f.day, tick |-> 0]

-----------------------------------------------------------------------------
(* datetime arithmetic.  A datetime is [year, month, day, tick]; tick is   *)
(* the time of day, 0 being midnight.                                      *)

DaysBeforeYear(y) ==
    (y - 1) * 365 + ((y - 1) \div 4) - ((y - 1) \div 100) + ((y - 1) \div 400)

RECURSIVE DaysBeforeMonth(_, _)
DaysBeforeMonth(y, m) ==
    IF m = 1 THEN 0 ELSE DaysBeforeMonth(y, m - 1) + DaysInMonth(y, m - 1)

toordinal(dt) == DaysBeforeYear(dt.year) + DaysBeforeMonth(dt.year, dt.month) + dt.day

\* position of a datetime on the time line, in ticks; datetimes compare by it
Ticks(dt) == toordinal(dt) * TicksPerDay + dt.tick

\* datetime.replace(year=y): raises ValueError when the day does not exist in y
replace_year_ok(dt, y) == dt.day <= DaysInMonth(y, dt.month)
replace_year(dt, y) == [dt EXCEPT !.year = y]

\* (a - b).days for datetimes a >= b
timedelta_days(a, b) == (Ticks(a) - Ticks(b)) \div TicksPerDay

-----------------------------------------------------------------------------
(* Text.  A printed or returned line is a record: the fixed text with the  *)
(* values formatted into it.                                               *)

Text(s) == [text |-> s, name |-> "", phones |-> <<>>, birthday |-> ""]

MsgInvalidPhone == "Phone number must have 10 digits."
MsgInvalidDate == "Invalid date format. Use DD.MM.YYYY"
MsgPhoneNotFound == "Phone not found."
MsgContactNotFound == "Contact not found."
MsgIndexError == "list index out of range"
MsgDayOutOfRange == "day is out of range for month"
MsgUnpack == "wrong number of values to unpack"

\* str(e): a KeyError renders the repr of its argument
str_exc(exc, msg) ==
    IF exc = "KeyError" /\ msg = MsgContactNotFound THEN "'Contact not found.'"
    ELSE msg

\* what a call gives: the directory (or record) after it, the exception it
\* raised ("" when it returned) with its message, and the value returned
Returned(d, v) == [data |-> d, exc |-> "", msg |-> "", val |-> v]
Raised(d, e, m) == [data |-> d, exc |-> e, msg |-> m, val |-> <<>>]

-----------------------------------------------------------------------------
(* Record *)

Record(name) == [name |-> name, phones |-> <<>>, birthday |-> None]

\* Record.add_phone, on the front instead of the end
add_phone_front(rec, phone) ==
    IF Phone_validate(phone)
    THEN Returned([rec EXCEPT !.phones = <<phone>> \o @], <<>>)
    ELSE Raised(rec, "ValueError", MsgInvalidPhone)

\* Record.add_phone
add_phone(rec, phone) ==
    IF Phone_validate(phone)
    THEN Returned([rec EXCEPT !.phones = Append(@, phone)], <<>>)
    ELSE Raised(rec, "ValueError", MsgInvalidPhone)

\* Record.remove_phone
remove_phone(rec, phone) ==
    [rec EXCEPT !.phones = SelectSeq(@, LAMBDA p : p # phone)]

\* the loop of Record.edit_phone from position i on
RECURSIVE edit_phone_from(_, _, _, _)
edit_phone_from(rec, old_phone, new_phone, i) ==
    IF i > Len(rec.phones) THEN Raised(rec, "ValueError", MsgPhoneNotFound)
    ELSE IF rec.phones[i] = old_phone
         THEN IF Phone_validate(new_phone)
              THEN Returned([rec EXCEPT !.phones[i] = new_phone], <<>>)
              ELSE Raised(rec, "ValueError", MsgInvalidPhone)
         ELSE edit_phone_from(rec, old_phone, new_phone, i + 1)

\* Record.edit_phone without the return that ends the loop
edit_phone_all(rec, old_phone, new_phone) ==
    IF \A i \in 1..Len(rec.phones) : rec.phones[i] # old_phone
    THEN Raised(rec, "ValueError", MsgPhoneNotFound)
    ELSE IF Phone_validate(new_phone)
         THEN Returned([rec EXCEPT !.phones =
                  [i \in 1..Len(@) |-> IF @[i] = old_phone THEN new_phone ELSE @[i]]],
                  <<>>)
         ELSE Raised(rec, "ValueError", MsgInvalidPhone)

\* Record.edit_phone
edit_phone(rec, old_phone, new_phone) == edit_phone_from(rec, old_phone, new_phone, 1)

\* Record.add_birthday
Record_add_birthday(rec, birthday) ==
    IF Birthday_validate(birthday)
    THEN Returned([rec EXCEPT !.birthday = birthday], <<>>)
    ELSE Raised(rec, "ValueError", MsgInvalidDate)

\* Record.get_birthday
get_birthday(rec) == IF rec.birthday # None THEN rec.birthday ELSE "Birthday not set."

\* Record.days_to_birthday at the instant today; <<>> is None
days_to_birthday(rec, today) ==
    IF rec.birthday # None
    THEN LET d == Birthday_date(rec.birthday)
         IN  IF ~replace_year_ok(d, today.year)
             THEN Raised(rec, "ValueError", MsgDayOutOfRange)
             ELSE LET next_birthday == replace_year(d, today.year)
                  IN  IF Ticks(next_birthday) < Ticks(today)
                      THEN IF ~replace_year_ok(next_birthday, today.year + 1)
                           THEN Raised(rec, "ValueError", MsgDayOutOfRange)
                           ELSE Returned(rec, <<timedelta_days(
                                    replace_year(next_birthday, today.year + 1), today)>>)
                      ELSE Returned(rec, <<timedelta_days(next_birthday, today)>>)
    ELSE Returned(rec, <<>>)

\* Record.__str__
Record_str(rec) ==
    [text |-> "Contact name: {name}, phones: {phones}, birthday: {birthday}",
     name |-> rec.name, phones |-> rec.phones, birthday |-> get_birthday(rec)]

-----------------------------------------------------------------------------
(* AddressBook: data is the dict, as the sequence of its records in        *)
(* insertion order; a record's key is its name.                            *)

Keys(data) == {data[i].name : i \in 1..Len(data)}

\* AddressBook.find: the position of the record, 0 for None
find(data, name) ==
    IF name \in Keys(data)
    THEN CHOOSE i \in 1..Len(data) : data[i].name = name
    ELSE 0

\* AddressBook.add_record: a dict assignment keeps the place of a key it has
add_record(data, record) ==
    IF find(data, record.name) # 0
    THEN [data EXCEPT ![find(data, record.name)] = record]
    ELSE Append(data, record)

\* AddressBook.delete
delete(data, name) ==
    IF name \in Keys(data)
    THEN Returned(SelectSeq(data, LAMBDA r : r.name # name), <<>>)
    ELSE Raised(data, "KeyError", MsgContactNotFound)

\* the condition of the comprehension of get_upcoming_birthdays
InWindow(rec, today) ==
    LET d == replace_year(Birthday_date(rec.birthday), today.year)
    IN  /\ Ticks(today) <= Ticks(d)
        /\ Ticks(d) <= Ticks(today) + HorizonDays * TicksPerDay

\* AddressBook.get_upcoming_birthdays at the instant today
get_upcoming_birthdays(data, today) ==
    IF \E i \in 1..Len(data) :
          /\ data[i].birthday # None
          /\ ~replace_year_ok(Birthday_date(data[i].birthday), today.year)
    THEN Raised(data, "ValueError", MsgDayOutOfRange)
    ELSE Returned(data,
             SelectSeq(data, LAMBDA r : r.birthday # None /\ InWindow(r, today)))

\* pickle.dump(self.data): the dict as (key, (name, phones, birthday)) items
pickle_dump(data) ==
    [i \in 1..Len(data) |->
        <<data[i].name, <<data[i].name, data[i].phones, data[i].birthday>>>>]

\* pickle.load(file)
pickle_load(bytes) ==
    [i \in 1..Len(bytes) |->
        [name |-> bytes[i][2][1], phones |-> bytes[i][2][2], birthday |-> bytes[i][2][3]]]

NoFile == [exists |-> FALSE, bytes |-> <<>>]

\* a save that leaves the file as it was
save_to_file_skipped(data) == storage

\* AddressBook.save_to_file: the file after the write
save_to_file(data) == [exists |-> TRUE, bytes |-> pickle_dump(data)]

\* AddressBook.load_from_file: self.data after the read
load_from_file(file) == IF file.exists THEN pickle_load(file.bytes) ELSE <<>>

-----------------------------------------------------------------------------
(* Command handlers *)

\* input_error: ValueError, KeyError and IndexError become the returned text
input_error(r) ==
    IF r.exc \in {"ValueError", "KeyError", "IndexError"}
    THEN Returned(r.data, <<Text(str_exc(r.exc, r.msg))>>)
    ELSE r

\* the body of add_contact
add_contact_body(args, data) ==
    IF Len(args) = 0 THEN Raised(data, "IndexError", MsgIndexError)
    ELSE
      LET name == args[1]
          found == find(data, name) # 0
          data1 == IF found THEN data ELSE add_record(data, Record(name))
          message == IF found THEN "Contact updated." ELSE "Contact added."
          i == find(data1, name)
      IN  IF Len(args) > 1
          THEN LET r == add_phone(data1[i], args[2])
               IN  IF r.exc # "" THEN Raised(data1, r.exc, r.msg)
                   ELSE Returned([data1 EXCEPT ![i] = r.data], <<Text(message)>>)
          ELSE Returned(data1, <<Text(message)>>)

add_contact(args, data) == input_error(add_contact_body(args, data))

\* the body of add_birthday
add_birthday_body(args, data) ==
    IF Len(args) < 2 THEN Raised(data, "IndexError", MsgIndexError)
    ELSE
      LET name == args[1]
          i == find(data, name)
      IN  IF i = 0 THEN Raised(data, "KeyError", MsgContactNotFound)
          ELSE LET r == Record_add_birthday(data[i], args[2])
               IN  IF r.exc # "" THEN Raised(data, r.exc, r.msg)
                   ELSE Returned([data EXCEPT ![i] = r.data],
                            <<[Text("Birthday added for {name}.") EXCEPT !.name = name]>>)

add_birthday(args, data) == input_error(add_birthday_body(args, data))

\* show_birthday with the upsert of add_contact in place of the lookup error
show_birthday_upserting(args, data) ==
    IF Len(args) = 0 THEN Raised(data, "IndexError", MsgIndexError)
    ELSE
      LET name == args[1]
          data1 == IF find(data, name) = 0 THEN add_record(data, Record(name)) ELSE data
      IN  Returned(data1,
              <<[Text("{name}'s birthday is {birthday}") EXCEPT
                   !.name = name, !.birthday = get_birthday(data1[find(data1, name)])]>>)

\* the body of show_birthday
show_birthday_body(args, data) ==
    IF Len(args) = 0 THEN Raised(data, "IndexError", MsgIndexError)
    ELSE
      LET name == args[1]
          i == find(data, name)
      IN  IF i = 0 THEN Raised(data, "KeyError", MsgContactNotFound)
          ELSE Returned(data,
                   <<[Text("{name}'s birthday is {birthday}") EXCEPT
                        !.name = name, !.birthday = get_birthday(data[i])]>>)

show_birthday(args, data) == input_error(show_birthday_body(args, data))

MsgNoUpcoming == "No upcoming birthdays in the next week."

\* the body of birthdays, run at the instant today
birthdays_body(args, data, today) ==
    LET upcoming == get_upcoming_birthdays(data, today)
    IN  IF upcoming.exc # "" THEN upcoming
        ELSE IF upcoming.val = <<>> THEN Returned(data, <<Text(MsgNoUpcoming)>>)
        ELSE Returned(data, [i \in 1..Len(upcoming.val) |-> Record_str(upcoming.val[i])])

birthdays(args, data, today) == input_error(birthdays_body(args, data, today))

\* the change branch of main: the exceptions raised here are not caught
main_change(args, data) ==
    IF Len(args) # 3 THEN Raised(data, "ValueError", MsgUnpack)
    ELSE
      LET name == args[1]
          i == find(data, name)
      IN  IF i # 0
          THEN LET r == edit_phone(data[i], args[2], args[3])
               IN  IF r.exc # "" THEN Raised(data, r.exc, r.msg)
                   ELSE Returned([data EXCEPT ![i] = r.data], <<Text("None")>>)
          ELSE Returned(data, <<Text(MsgContactNotFound)>>)

\* the phone branch of main
main_phone(args, data) ==
    IF Len(args) = 0 THEN Raised(data, "IndexError", MsgIndexError)
    ELSE
      LET name == args[1]
          i == find(data, name)
      IN  IF i # 0
          THEN Returned(data, <<[Text("{name}'s phones: {phones}") EXCEPT
                                   !.name = name, !.phones = data[i].phones]>>)
          ELSE Returned(data, <<Text(MsgContactNotFound)>>)

-----------------------------------------------------------------------------
(* Inputs *)

Extra == "extra"

NoArgs == {<<>>}
NameArgs == {<<n>> : n \in Names}
AddArgs ==
    NoArgs \cup NameArgs
    \cup {<<n, p>> : n \in Names, p \in PhoneTokens}
    \cup {<<n, P1, Extra>> : n \in Names}
ChangeArgs ==
    NoArgs \cup {<<"Alice", P1>>, <<"Alice", P1, P2, Extra>>}
    \cup {<<n, p, q>> : n \in Names, p \in ValidPhoneTokens \cup {PShort},
                        q \in ValidPhoneTokens \cup {PShort, PLong}}
AddBirthdayArgs ==
    NoArgs \cup NameArgs
    \cup {<<n, b>> : n \in Names, b \in BirthdayTokens}
    \cup {<<n, B1, Extra>> : n \in Names}
QueryArgs == NoArgs \cup NameArgs \cup {<<"Alice", Extra>>}
UnknownCommands == {"foo", "Add", "delete"}

Dates ==
    {<<2024, 2, 25>>, <<2024, 3, 4>>, <<2024, 3, 5>>, <<2024, 3, 11>>,
     <<2024, 3, 12>>, <<2024, 3, 13>>, <<2023, 3, 5>>, <<2023, 3, 12>>,
     <<2023, 3, 13>>}

\* the instants datetime.today() may give
Clock ==
    {[year |-> d[1], month |-> d[2], day |-> d[3], tick |-> t] :
        d \in Dates, t \in 0..(TicksPerDay - 1)}

NoClock == [year |-> 0, month |-> 0, day |-> 0, tick |-> 0]
NoRet == [exc |-> "", msg |-> "", val |-> <<>>]

RECURSIVE TotalPhones(_)
TotalPhones(data) ==
    IF Len(data) = 0 THEN 0
    ELSE Len(data[1].phones) + TotalPhones(Tail(data))

\* the files a previous run may have left
InitFiles ==
    {NoFile,
     [exists |-> TRUE, bytes |-> pickle_dump(<<>>)],
     [exists |-> TRUE, bytes |-> pickle_dump(
         <<[name |-> "Alice", phones |-> <<P1>>, birthday |-> B1]>>)]}

-----------------------------------------------------------------------------
(* main *)

Init ==
    /\ storage \in InitFiles
    /\ book = load_from_file(storage)
    /\ pc = "prompt"
    /\ err = ""
    /\ line = <<>>
    /\ out = <<Text("Welcome to the assistant bot!")>>
    /\ now = NoClock
    /\ call = <<>>
    /\ ret = NoRet

\* input() raises EOFError or KeyboardInterrupt
InputInterrupted ==
    /\ pc = "prompt"
    /\ pc' = "crashed"
    /\ err' = "EOFError"
    /\ UNCHANGED <<book, storage, line, out, now, call, ret>>

\* an empty or blank line: parts[0] raises IndexError in parse_input
EmptyLine ==
    /\ pc = "prompt"
    /\ line' = <<>>
    /\ pc' = "crashed"
    /\ err' = "IndexError"
    /\ UNCHANGED <<book, storage, out, now, call, ret>>

CloseCmd ==
    /\ pc = "prompt"
    /\ \E c \in {"close", "exit"}, args \in {<<>>, <<Extra>>} :
          line' = <<c>> \o args
    /\ storage' = save_to_file(book)
    /\ out' = <<Text("Good bye!")>>
    /\ pc' = "done"
    /\ UNCHANGED <<book, err, now, call, ret>>

HelloCmd ==
    /\ pc = "prompt"
    /\ \E args \in {<<>>, <<Extra>>} : line' = <<"hello">> \o args
    /\ out' = <<Text("How can I help you?")>>
    /\ pc' = "printed"
    /\ UNCHANGED <<book, storage, err, now, call, ret>>

AddCmd ==
    /\ pc = "prompt"
    /\ \E args \in AddArgs :
          LET r == add_contact(args, book)
          IN  /\ TotalPhones(r.data) <= MaxPhones
              /\ line' = <<"add">> \o args
              /\ book' = r.data
              /\ out' = r.val
              /\ storage' = save_to_file(r.data)
    /\ pc' = "printed"
    /\ UNCHANGED <<err, now, call, ret>>

ChangeCmd ==
    /\ pc = "prompt"
    /\ \E args \in ChangeArgs :
          LET r == main_change(args, book)
          IN  /\ line' = <<"change">> \o args
              /\ book' = r.data
              /\ IF r.exc # ""
                 THEN /\ pc' = "crashed"
                      /\ err' = r.exc
                      /\ UNCHANGED <<storage, out>>
                 ELSE /\ pc' = "printed"
                      /\ out' = r.val
                      /\ storage' = IF find(book, args[1]) # 0
                                    THEN save_to_file(r.data) ELSE storage
                      /\ UNCHANGED err
    /\ UNCHANGED <<now, call, ret>>

PhoneCmd ==
    /\ pc = "prompt"
    /\ \E args \in QueryArgs :
          LET r == main_phone(args, book)
          IN  /\ line' = <<"phone">> \o args
              /\ book' = r.data
              /\ IF r.exc # ""
                 THEN pc' = "crashed" /\ err' = r.exc /\ UNCHANGED out
                 ELSE pc' = "printed" /\ out' = r.val /\ UNCHANGED err
    /\ UNCHANGED <<storage, now, call, ret>>

AllCmd ==
    /\ pc = "prompt"
    /\ \E args \in {<<>>, <<Extra>>} : line' = <<"all">> \o args
    /\ out' = [i \in 1..Len(book) |-> Record_str(book[i])]
    /\ pc' = "printed"
    /\ UNCHANGED <<book, storage, err, now, call, ret>>

AddBirthdayCmd ==
    /\ pc = "prompt"
    /\ \E args \in AddBirthdayArgs :
          LET r == add_birthday(args, book)
          IN  /\ line' = <<"add-birthday">> \o args
              /\ book' = r.data
              /\ out' = r.val
              /\ storage' = save_to_file(r.data)
    /\ pc' = "printed"
    /\ UNCHANGED <<err, now, call, ret>>

ShowBirthdayCmd ==
    /\ pc = "prompt"
    /\ \E args \in QueryArgs :
          LET r == show_birthday(args, book)
          IN  /\ line' = <<"show-birthday">> \o args
              /\ book' = r.data
              /\ out' = r.val
    /\ pc' = "printed"
    /\ UNCHANGED <<storage, err, now, call, ret>>

BirthdaysCmd ==
    /\ pc = "prompt"
    /\ \E args \in {<<>>, <<Extra>>}, today \in Clock :
          LET r == birthdays(args, book, today)
          IN  /\ line' = <<"birthdays">> \o args
              /\ now' = today
              /\ book' = r.data
              /\ out' = r.val
    /\ pc' = "printed"
    /\ UNCHANGED <<storage, err, call, ret>>

InvalidCmd ==
    /\ pc = "prompt"
    /\ \E c \in UnknownCommands, args \in {<<>>, <<"Alice", P1>>} :
          line' = <<c>> \o args
    /\ out' = <<Text("Invalid command.")>>
    /\ pc' = "printed"
    /\ UNCHANGED <<book, storage, err, now, call, ret>>

\* the end of an iteration of "while True": back to input() for the next line
LoopBack ==
    /\ pc = "printed"
    /\ pc' = "prompt"
    /\ line' = <<>>
    /\ out' = <<>>
    /\ now' = NoClock
    /\ UNCHANGED <<book, storage, err, call, ret>>

Next ==
    \/ InputInterrupted
    \/ EmptyLine
    \/ CloseCmd
    \/ HelloCmd
    \/ AddCmd
    \/ ChangeCmd
    \/ PhoneCmd
    \/ AllCmd
    \/ AddBirthdayCmd
    \/ ShowBirthdayCmd
    \/ BirthdaysCmd
    \/ InvalidCmd
    \/ LoopBack

Spec == Init /\ [][Next]_vars

-----------------------------------------------------------------------------
(* Direct calls of the methods of one Record *)

SeqsUpTo(S, n) == UNION {[1..k -> S] : k \in 0..n}

TestRecords ==
    {[name |-> "Alice", phones |-> ps, birthday |-> b] :
        ps \in SeqsUpTo(ValidPhoneTokens, MaxRecordPhones), b \in {None, B1, BLeap}}

InitRecord ==
    /\ book \in {<<rec>> : rec \in TestRecords}
    /\ storage = NoFile
    /\ pc = "api"
    /\ err = ""
    /\ line = <<>>
    /\ out = <<>>
    /\ now = NoClock
    /\ call = <<>>
    /\ ret = NoRet

CallEditPhone ==
    /\ pc = "api"
    /\ \E old_phone \in ValidPhoneTokens \cup {PShort}, new_phone \in PhoneTokens :
          LET r == edit_phone(book[1], old_phone, new_phone)
          IN  /\ call' = <<"edit_phone", old_phone, new_phone>>
              /\ book' = <<r.data>>
              /\ ret' = [exc |-> r.exc, msg |-> r.msg, val |-> r.val]
    /\ now' = NoClock
    /\ UNCHANGED <<storage, pc, err, line, out>>

CallDaysToBirthday ==
    /\ pc = "api"
    /\ \E today \in Clock :
          LET r == days_to_birthday(book[1], today)
          IN  /\ call' = <<"days_to_birthday">>
              /\ now' = today
              /\ book' = <<r.data>>
              /\ ret' = [exc |-> r.exc, msg |-> r.msg, val |-> r.val]
    /\ UNCHANGED <<storage, pc, err, line, out>>

NextRecord == CallEditPhone \/ CallDaysToBirthday

SpecRecord == InitRecord /\ [][NextRecord]_vars

-----------------------------------------------------------------------------
(* Properties *)

Range(f) == {f[i] : i \in DOMAIN f}

\* the date of a datetime, in days
DateOf(dt) == toordinal(dt)

\* the command of this iteration's line, "" for none
Command == IF Len(line) > 0 THEN line[1] ELSE ""

\* C1: whenever the loop waits for input or has ended (break or uncaught
\* exception), the directory read back from the file (the empty mapping when
\* there is no file) is the directory in memory.
SnapshotEqualsDirectory ==
    pc \in {"prompt", "printed", "done", "crashed"}
        => load_from_file(storage) = book

\* a change that replaced a phone of one of two records, written to the file
SnapshotAfterChange ==
    /\ pc = "printed"
    /\ Command = "change"
    /\ out = <<Text("None")>>
    /\ Len(book) = 2
    /\ storage.exists

\* C2: the loop ends only on close or exit (or when input() is interrupted); no
\* other input line terminates the process.
OnlyCloseOrExitEndsLoop ==
    pc \in {"done", "crashed"}
        => \/ pc = "done" /\ Command \in {"close", "exit"}
           \/ err = "EOFError"

\* C3: every stored phone is a string of exactly 10 decimal digits.
StoredPhonesAreTenDigits ==
    \A i \in 1..Len(book) : \A j \in 1..Len(book[i].phones) :
        LET s == Chars(book[i].phones[j])
        IN  Len(s) = 10 /\ \A k \in 1..Len(s) : s[k] \in Digits

\* an add with an 11-digit phone was refused while the directory holds phones
LongPhoneRefused ==
    /\ pc = "printed"
    /\ line = <<"add", "Alice", PLong>>
    /\ out = <<Text(MsgInvalidPhone)>>
    /\ TotalPhones(book) >= 2

IsTenDigits(tok) == Len(Chars(tok)) = 10 /\ AllDigits(Chars(tok))

\* C4: add name [phone], the phone omitted or valid: a new name gets a record
\* with no birthday and the phone alone ("Contact added."); an existing name
\* keeps its record, the phone appended at the end ("Contact updated."); the
\* other records are unchanged and one record is under the name.
AddUpserts ==
    [][ ( /\ pc = "prompt"
          /\ Len(line') >= 2
          /\ line'[1] = "add"
          /\ (Len(line') = 2 \/ IsTenDigits(line'[3])) )
        => LET name == line'[2]
               given == Len(line') >= 3
           IN  /\ IF \A i \in 1..Len(book) : book[i].name # name
                  THEN /\ book' = Append(book,
                              [name |-> name,
                               phones |-> IF given THEN <<line'[3]>> ELSE <<>>,
                               birthday |-> None])
                       /\ out' = <<Text("Contact added.")>>
                  ELSE /\ \E i \in 1..Len(book) :
                            /\ book[i].name = name
                            /\ book' = [book EXCEPT ![i].phones =
                                          IF given THEN Append(@, line'[3]) ELSE @]
                       /\ out' = <<Text("Contact updated.")>>
               /\ Cardinality({i \in 1..Len(book') : book'[i].name = name}) = 1
      ]_vars

\* a phone Alice already has was added to her again
DuplicatePhoneAppended ==
    /\ pc = "printed"
    /\ line = <<"add", "Alice", P1>>
    /\ out = <<Text("Contact updated.")>>
    /\ \E i \in 1..Len(book) : book[i].name = "Alice" /\ book[i].phones = <<P1, P1>>

\* C5: edit_phone(old, new), new valid: with old among the phones, the first
\* entry equal to old becomes new and nothing else changes; with old not
\* among them, it raises "Phone not found." and the phones are unchanged.
EditPhoneReplacesFirstMatch ==
    [][ (Len(call') > 0 /\ call'[1] = "edit_phone")
        => LET old == call'[2]
               new == call'[3]
               ph == book[1].phones
               ph2 == book'[1].phones
           IN  /\ (old \in Range(ph) /\ IsTenDigits(new))
                    => /\ ret'.exc = ""
                       /\ Len(ph2) = Len(ph)
                       /\ \E i \in 1..Len(ph) :
                            /\ ph[i] = old
                            /\ \A j \in 1..(i - 1) : ph[j] # old
                            /\ ph2[i] = new
                            /\ \A j \in 1..Len(ph) : j # i => ph2[j] = ph[j]
               /\ (old \notin Range(ph))
                    => /\ ret'.exc = "ValueError"
                       /\ ret'.msg = "Phone not found."
                       /\ ph2 = ph
      ]_vars

\* the first of two equal phones was replaced, the second kept
FirstOfTwoReplaced ==
    /\ call = <<"edit_phone", P1, P2>>
    /\ ret.exc = ""
    /\ book[1].phones = <<P2, P1>>

\* whether the month/day of a birthday, in year y, is a date within
\* [date of today, date of today + 7 days]
InDateWindow(birthday, today) ==
    LET d == Birthday_date(birthday)
    IN  /\ d.day <= DaysInMonth(today.year, d.month)
        /\ DateOf(today) <= DateOf([d EXCEPT !.year = today.year])
        /\ DateOf([d EXCEPT !.year = today.year]) <= DateOf(today) + 7

Rendered(recs) == [i \in 1..Len(recs) |-> Record_str(recs[i])]

BirthdaysRan == pc = "printed" /\ Command = "birthdays"

\* C6: the upcoming birthdays are, in insertion order, exactly the records
\* whose birthday's month/day in the current year is a date from today to
\* today + 7 days, both ends included, at whatever time of day.
UpcomingIsInclusiveDateWindow ==
    (BirthdaysRan /\ out # <<Text(MsgDayOutOfRange)>>)
        => LET sel == SelectSeq(book, LAMBDA r :
                          r.birthday # None /\ InDateWindow(r.birthday, now))
           IN  out = IF sel = <<>> THEN <<Text(MsgNoUpcoming)>> ELSE Rendered(sel)

\* C7: birthdays prints the renderings of the records the query selects, or
\* the "none" message; never an error text, also with a 29.02 birthday in the
\* directory and a current year that is no leap year.
BirthdaysNeverPrintsError ==
    BirthdaysRan
        => LET sel == SelectSeq(book, LAMBDA r :
                          /\ r.birthday # None
                          /\ replace_year_ok(Birthday_date(r.birthday), now.year)
                          /\ InWindow(r, now))
           IN  out = IF sel = <<>> THEN <<Text(MsgNoUpcoming)>> ELSE Rendered(sel)

\* days from the date of today to the next date with the birthday's month/day
CalendarDaysToNext(birthday, today) ==
    LET d == Birthday_date(birthday)
        this == DateOf([d EXCEPT !.year = today.year])
        next == DateOf([d EXCEPT !.year = today.year + 1])
    IN  IF this >= DateOf(today) THEN this - DateOf(today) ELSE next - DateOf(today)

\* C8: days_to_birthday gives the calendar days from the current date to the
\* next occurrence of the birthday's month/day on or after it (0 today, 1
\* tomorrow, always 0..365), for a birthday other than 29 February and at any
\* time of day; None without a birthday.
DaysToBirthdayIsCalendarDays ==
    (Len(call) > 0 /\ call[1] = "days_to_birthday")
        => IF book[1].birthday = None
           THEN ret = NoRet
           ELSE LET d == Birthday_date(book[1].birthday)
                IN  ~(d.month = 2 /\ d.day = 29)
                      => /\ ret.exc = ""
                         /\ ret.val = <<CalendarDaysToNext(book[1].birthday, now)>>
                         /\ ret.val[1] \in 0..365

\* the success output of add, change and add-birthday
SuccessOutput(cmd, o) ==
    /\ Len(o) = 1
    /\ CASE cmd = "add" -> o[1].text \in {"Contact added.", "Contact updated."}
         [] cmd = "change" -> o[1].text = "None"
         [] cmd = "add-birthday" -> o[1].text = "Birthday added for {name}."

\* C9: when add, change or add-birthday ends with an error instead of its
\* success message, the directory is as it was before the command.
ErrorLeavesDirectoryUnchanged ==
    [][ ( /\ pc = "prompt"
          /\ Len(line') > 0
          /\ line'[1] \in {"add", "change", "add-birthday"}
          /\ (pc' = "crashed" \/ ~SuccessOutput(line'[1], out')) )
        => book' = book
      ]_vars

\* C10: only add, change and add-birthday change the directory, and only
\* they and close/exit write the file: hello, phone, all, show-birthday,
\* birthdays and unknown commands leave both as they were.
QueriesChangeNothing ==
    [][ /\ book' # book
            => Len(line') > 0 /\ line'[1] \in {"add", "change", "add-birthday"}
        /\ storage' # storage
            => /\ Len(line') > 0
               /\ line'[1] \in {"add", "change", "add-birthday", "close", "exit"}
      ]_vars

\* show-birthday has run for a name the directory does not hold
ShowBirthdayOfUnknownName ==
    /\ pc = "printed"
    /\ line = <<"show-birthday", "Bob">>
    /\ out = <<Text("'Contact not found.'")>>
    /\ Len(book) = 1
    /\ storage.exists

====
